---- MODULE Spec2Model ----
(***************************************************************************)
(* A model of robotabor.py: the Pilot (differential-drive motion control   *)
(* over two motors) and the NotePlayer (tone sequencer).                   *)
(*                                                                         *)
(* Python floats are modelled as exact rationals [n, d] (d > 0, lowest     *)
(* terms); math.pi is the rational PiNum / PiDen.  round() is Python's     *)
(* round-half-to-even.  An optional argument is a sequence: <<>> is None,  *)
(* <<x>> is the value x.                                                   *)
(***************************************************************************)
EXTENDS Integers, Sequences, FiniteSets, TLC

VARIABLES
    reverse,         \* Pilot.reverse
    wheel_diameter,  \* Pilot.wheel_diameter (mm)
    axle_width,      \* Pilot.axle_width (mm)
    speed,           \* Pilot.speed (deg/s)
    angle_offset,    \* Pilot._angle_offset
    left_motor,      \* the left motor: [angle, mode, rate, remaining]
    right_motor,     \* the right motor
    pc,              \* where the caller's thread is: "idle", "wait_left", "wait_right"
    call,            \* the Pilot call in progress or last made, with its outcome
    log,             \* the motor commands that call has issued, in order
    calls,           \* number of Pilot calls made so far
    ref,             \* <<left, right>> motor angles when _angle_offset was last captured
    repeat,          \* NotePlayer.repeat
    queue,           \* NotePlayer.queue
    current_index,   \* NotePlayer.current_index
    is_playing,      \* NotePlayer.is_playing
    note_start_time, \* NotePlayer.note_start_time
    note_duration,   \* NotePlayer.note_duration
    now,             \* time.time() * 1000
    tones,           \* queue indices handed to play_tone since the last play()
    last             \* the last NotePlayer operation and what its update() did

pilotVars == <<reverse, wheel_diameter, axle_width, speed, angle_offset,
               left_motor, right_motor, pc, call, log, calls, ref>>
playerVars == <<repeat, queue, current_index, is_playing, note_start_time,
                note_duration, now, tones, last>>
vars == <<pilotVars, playerVars>>

-----------------------------------------------------------------------------
(* Bounds of the model *)

MaxCalls == 2
MaxSession == 3
MaxSpin == 1
MaxNotes == 3
MaxTime == 6

-----------------------------------------------------------------------------
(* Arithmetic *)

None == <<>>
Some(x) == <<x>>

Abs(x) == IF x < 0 THEN -x ELSE x

\* The arithmetic helpers are functions, not operators: TLC evaluates the
\* argument of a function application once, before the body.
GCD[a \in Nat, b \in Nat] == IF b = 0 THEN a ELSE GCD[b, a % b]

\* the rational n / d in lowest terms with a positive denominator
Rat[n \in Int, d \in Int] ==
    LET g == GCD[Abs(n), Abs(d)]
        s == IF d < 0 THEN -1 ELSE 1
    IN  [n |-> (s * n) \div g, d |-> (s * d) \div g]

Rats == [n : Int, d : Nat]

RInt[x \in Int] == [n |-> x, d |-> 1]

RMul[a \in Rats, b \in Rats] ==
    LET g1 == GCD[Abs(a.n), b.d]
        g2 == GCD[Abs(b.n), a.d]
    IN  Rat[(a.n \div g1) * (b.n \div g2), (a.d \div g2) * (b.d \div g1)]

RDiv[a \in Rats, b \in Rats] == RMul[a, Rat[b.d, b.n]]

RSub[a \in Rats, b \in Rats] ==
    LET g == GCD[a.d, b.d]
    IN  Rat[a.n * (b.d \div g) - b.n * (a.d \div g), (a.d \div g) * b.d]

RNeg[a \in Rats] == [n |-> -a.n, d |-> a.d]

RAbs[a \in Rats] == [n |-> Abs(a.n), d |-> a.d]

RLeq[a \in Rats, b \in Rats] == a.n * b.d <= b.n * a.d

PiNum == 355
PiDen == 113
Pi == Rat[PiNum, PiDen]

\* Python's round(x): nearest integer, ties to the even one
round[x \in Rats] ==
    LET q == x.n \div x.d
        r == x.n - q * x.d
    IN  IF 2 * r < x.d THEN q
        ELSE IF 2 * r > x.d THEN q + 1
        ELSE IF q % 2 = 0 THEN q ELSE q + 1

radians[a \in Rats] == RDiv[RMul[a, Pi], RInt[180]]

-----------------------------------------------------------------------------
(* The motor capability (brian.motors.Motor) *)

Motor(a) == [angle |-> a, mode |-> "ready", rate |-> 0, remaining |-> 0,
             spun |-> 0]

run_at_speed(m, v) == [m EXCEPT !.mode = "speed", !.rate = v, !.remaining = 0]

rotate_by_angle(m, delta, v) ==
    [m EXCEPT !.mode = "position", !.rate = v, !.remaining = delta]

brake(m) == [m EXCEPT !.mode = "brake", !.rate = 0, !.remaining = 0]

\* a bounded move that has not reached its target
Busy(m) == m.mode = "position" /\ m.remaining # 0

\* one command <<motor, name, arguments...>> applied to the pair of motors
Apply(ms, c) ==
    LET m == IF c[1] = "left" THEN ms[1] ELSE ms[2]
        m2 == CASE c[2] = "run_at_speed" -> run_at_speed(m, c[3])
                [] c[2] = "rotate_by_angle" -> rotate_by_angle(m, c[3], c[4])
                [] c[2] = "brake" -> brake(m)
                [] OTHER -> m
    IN  IF c[1] = "left" THEN <<m2, ms[2]>> ELSE <<ms[1], m2>>

RECURSIVE ApplyAll(_, _)
ApplyAll(ms, cs) ==
    IF cs = <<>> THEN ms ELSE ApplyAll(Apply(ms, Head(cs)), Tail(cs))

-----------------------------------------------------------------------------
(* Pilot: unit conversion and the commands each operation issues *)

mm_to_deg(wd, mm) == round[RDiv[RMul[mm, RInt[360]], RMul[Pi, RInt[wd]]]]

run_motor_at_speeds(ls, rs) ==
    << <<"left", "run_at_speed", round[ls]>>,
       <<"right", "run_at_speed", round[rs]>> >>

forward_cmds(rev, spd) ==
    LET direction == IF rev THEN -1 ELSE 1
    IN  run_motor_at_speeds(RInt[direction * spd], RInt[direction * spd])

backward_cmds(rev, spd) ==
    LET direction == IF rev THEN 1 ELSE -1
    IN  run_motor_at_speeds(RInt[direction * spd], RInt[direction * spd])

travel_cmds(rev, spd, wd, distance) ==
    LET d0 == mm_to_deg(wd, RInt[distance])
        degrees == IF rev THEN -d0 ELSE d0
    IN  << <<"left", "rotate_by_angle", degrees, spd, 0>>,
           <<"right", "rotate_by_angle", degrees, spd, 0>> >>

rotate_degrees(wd, aw, angle) ==
    LET arc_mm == RMul[RMul[Rat[angle, 360], Pi], RInt[aw]]
    IN  mm_to_deg(wd, arc_mm)

rotate_cmds(rev, spd, wd, aw, angle) ==
    LET degrees == rotate_degrees(wd, aw, angle)
        left_speed == IF ~rev THEN spd ELSE -spd
        right_speed == -left_speed
    IN  << <<"left", "rotate_by_angle", degrees, left_speed, 0>>,
           <<"right", "rotate_by_angle", -degrees, right_speed, 0>> >>

clamp(turn_rate) ==
    LET lo == IF 200 < turn_rate THEN 200 ELSE turn_rate
    IN  IF -200 > lo THEN -200 ELSE lo

\* the ratio with the sign of the reversing inner wheel lost
steer_ratio_unsigned(abs_tr) ==
    IF abs_tr <= 100
    THEN RSub[RInt[1], Rat[abs_tr, 100]]
    ELSE Rat[abs_tr - 100, 100]

steer_ratio(abs_tr) ==
    IF abs_tr <= 100
    THEN RSub[RInt[1], Rat[abs_tr, 100]]
    ELSE RNeg[Rat[abs_tr - 100, 100]]

\* <<left_speed, right_speed>> of steer for a clamped, nonzero turn rate
steer_speeds(rev, spd, tr) ==
    LET ratio == steer_ratio(Abs(tr))
        ls == IF tr > 0 THEN RMul[RInt[spd], ratio] ELSE RInt[spd]
        rs == IF tr > 0 THEN RInt[spd] ELSE RMul[RInt[spd], ratio]
    IN  IF rev THEN <<RNeg[ls], RNeg[rs]>> ELSE <<ls, rs>>

\* omega of steer with an angle
steer_omega(rev, spd, wd, aw, tr) ==
    LET sp == steer_speeds(rev, spd, tr)
        mm_per_deg == RDiv[RMul[Pi, RInt[wd]], RInt[360]]
        v_l_mm == RMul[sp[1], mm_per_deg]
        v_r_mm == RMul[sp[2], mm_per_deg]
    IN  RDiv[RSub[v_r_mm, v_l_mm], RInt[aw]]

\* the bounded commands of steer with an angle; omega is not 0
steer_angle_cmds(rev, spd, wd, aw, tr, angle) ==
    LET sp == steer_speeds(rev, spd, tr)
        mm_per_deg == RDiv[RMul[Pi, RInt[wd]], RInt[360]]
        v_l_mm == RMul[sp[1], mm_per_deg]
        v_r_mm == RMul[sp[2], mm_per_deg]
        omega == steer_omega(rev, spd, wd, aw, tr)
        t == RDiv[radians[RInt[angle]], RAbs[omega]]
        s_l_mm == RMul[v_l_mm, t]
        s_r_mm == RMul[v_r_mm, t]
        deg_l == mm_to_deg(wd, s_l_mm)
        deg_r == mm_to_deg(wd, s_r_mm)
    IN  << <<"left", "rotate_by_angle", deg_l, round[RAbs[sp[1]]], 0>>,
           <<"right", "rotate_by_angle", deg_r, round[RAbs[sp[2]]], 0>> >>

\* steer with forward() called before the angle is looked at
steer_cmds_forward_first(rev, spd, wd, aw, turn_rate, angle) ==
    IF clamp(turn_rate) = 0
    THEN <<IF angle # None THEN "ValueError" ELSE "returned",
           forward_cmds(rev, spd)>>
    ELSE <<"returned",
           run_motor_at_speeds(steer_speeds(rev, spd, clamp(turn_rate))[1],
                               steer_speeds(rev, spd, clamp(turn_rate))[2])>>

\* steer without the return after the velocity commands: it goes on to wait
steer_cmds_falls_through(rev, spd, wd, aw, turn_rate, angle) ==
    IF clamp(turn_rate) = 0
    THEN <<IF angle # None THEN "ValueError" ELSE "returned",
           IF angle # None THEN <<>> ELSE forward_cmds(rev, spd)>>
    ELSE <<"running",
           run_motor_at_speeds(steer_speeds(rev, spd, clamp(turn_rate))[1],
                               steer_speeds(rev, spd, clamp(turn_rate))[2])>>

\* what steer does before any wait: <<outcome, commands>>
steer_cmds(rev, spd, wd, aw, turn_rate, angle) ==
    LET tr == clamp(turn_rate)
    IN  IF tr = 0
        THEN IF angle # None
             THEN <<"ValueError", <<>> >>
             ELSE <<"returned", forward_cmds(rev, spd)>>
        ELSE IF angle = None
             THEN <<"returned",
                    run_motor_at_speeds(steer_speeds(rev, spd, tr)[1],
                                        steer_speeds(rev, spd, tr)[2])>>
             ELSE IF steer_omega(rev, spd, wd, aw, tr).n = 0
                  THEN <<"ZeroDivisionError", <<>> >>
                  ELSE <<"running",
                         steer_angle_cmds(rev, spd, wd, aw, tr, angle[1])>>

stop_cmds == << <<"left", "brake">>, <<"right", "brake">> >>

\* the timeout handed on in seconds
wait_arg_seconds(timeout) == IF timeout = None THEN None ELSE Some(timeout[1])

\* the argument of wait_for_movement: nothing, or timeout * 1000
wait_arg(timeout) == IF timeout = None THEN None ELSE Some(timeout[1] * 1000)

\* the baseline taken from the left motor alone
heading_offset_left_only(l, r) == l.angle

heading_offset(l, r) == l.angle - r.angle

\* get_angle(): a rational number of degrees
get_angle(l, r, off, aw) ==
    LET rotation_difference == l.angle - r.angle - off
    IN  RMul[RDiv[RInt[rotation_difference],
                  RMul[RMul[Pi, RInt[aw]], RInt[4]]],
             RInt[360]]

-----------------------------------------------------------------------------
(* Inputs: the arguments the calls are made with.  Wide explores every kind *)
(* of argument in short sessions, Narrow fewer arguments in longer ones.    *)

Wide ==
    [wheel_diameters |-> {56, 40},
     axle_widths |-> {100},
     start_angles |-> {0},
     speeds |-> {0, 3},
     distances |-> {1000, -100},
     angles |-> {90, -45},
     turn_rates |-> {-250, -150, -50, 0, 50, 100, 200},
     steer_angles |-> {None, Some(90)},
     waits |-> BOOLEAN \X {None, Some(2)},
     spin |-> FALSE,
     max_calls |-> MaxCalls]

Narrow ==
    [wheel_diameters |-> {56},
     axle_widths |-> {100},
     start_angles |-> {0, 7},
     speeds |-> {3},
     distances |-> {1000},
     angles |-> {90},
     turn_rates |-> {50},
     steer_angles |-> {None},
     waits |-> {<<TRUE, None>>, <<TRUE, Some(2)>>, <<FALSE, None>>},
     spin |-> TRUE,
     max_calls |-> MaxSession]

-----------------------------------------------------------------------------
(* Pilot: the state machine *)

NoCall == [op |-> "init", args |-> <<>>, outcome |-> "returned", ret |-> None,
           read |-> <<>>, timed_out |-> {}]

\* Pilot.__init__
InitPilot(inp) ==
    /\ reverse \in BOOLEAN
    /\ wheel_diameter \in inp.wheel_diameters
    /\ axle_width \in inp.axle_widths
    /\ speed = 400
    /\ \E a \in inp.start_angles :
          /\ left_motor = Motor(a)
          /\ right_motor = Motor(0)
          /\ angle_offset = heading_offset(Motor(a), Motor(0))
          /\ ref = <<a, 0>>
    /\ pc = "idle"
    /\ call = NoCall
    /\ log = <<>>
    /\ calls = 0

\* the caller is between calls and makes another one
CanCall(inp) == pc = "idle" /\ calls < inp.max_calls

\* a call that issues the commands cs and ends at once with the given outcome
Issue(op, args, outcome, cs) ==
    /\ calls' = calls + 1
    /\ call' = [op |-> op, args |-> args, outcome |-> outcome, ret |-> None,
                read |-> <<>>, timed_out |-> {}]
    /\ log' = cs
    /\ left_motor' = ApplyAll(<<left_motor, right_motor>>, cs)[1]
    /\ right_motor' = ApplyAll(<<left_motor, right_motor>>, cs)[2]
    /\ pc' = "idle"
    /\ UNCHANGED <<reverse, wheel_diameter, axle_width, speed, angle_offset, ref>>

\* a call that issues the two bounded commands cs and then, if asked, waits
IssueBounded(op, args, cs, wait, timeout) ==
    /\ calls' = calls + 1
    /\ call' = [op |-> op, args |-> args,
                outcome |-> IF wait THEN "running" ELSE "returned",
                ret |-> None, read |-> <<>>, timed_out |-> {}]
    /\ log' = IF wait
              THEN Append(cs, <<"left", "wait_for_movement", wait_arg(timeout)>>)
              ELSE cs
    /\ left_motor' = ApplyAll(<<left_motor, right_motor>>, cs)[1]
    /\ right_motor' = ApplyAll(<<left_motor, right_motor>>, cs)[2]
    /\ pc' = IF wait THEN "wait_left" ELSE "idle"
    /\ UNCHANGED <<reverse, wheel_diameter, axle_width, speed, angle_offset, ref>>

Forward(inp) ==
    /\ CanCall(inp)
    /\ \E cs \in {forward_cmds(reverse, speed)} :
          Issue("forward", <<>>, "returned", cs)

Backward(inp) ==
    /\ CanCall(inp)
    /\ \E cs \in {backward_cmds(reverse, speed)} :
          Issue("backward", <<>>, "returned", cs)

Travel(inp) ==
    /\ CanCall(inp)
    /\ \E distance \in inp.distances :
        \E cs \in {travel_cmds(reverse, speed, wheel_diameter, distance)} :
            \E w \in inp.waits :
                IssueBounded("travel", <<distance, w[1], w[2]>>, cs,
                             w[1], w[2])

Rotate(inp) ==
    /\ CanCall(inp)
    /\ \E angle \in inp.angles :
        \E cs \in {rotate_cmds(reverse, speed, wheel_diameter, axle_width, angle)} :
            \E w \in inp.waits :
                IssueBounded("rotate", <<angle, w[1], w[2]>>, cs,
                             w[1], w[2])

Steer(inp) ==
    /\ CanCall(inp)
    /\ \E turn_rate \in inp.turn_rates, angle \in inp.steer_angles :
        \E r \in {steer_cmds(reverse, speed, wheel_diameter, axle_width,
                             turn_rate, angle)} :
            \E w \in inp.waits :
                IF r[1] = "running"
                THEN IssueBounded("steer", <<turn_rate, angle, w[1], w[2]>>,
                                  r[2], w[1], w[2])
                ELSE Issue("steer", <<turn_rate, angle, w[1], w[2]>>,
                           r[1], r[2])

Stop(inp) ==
    /\ CanCall(inp)
    /\ \E cs \in {stop_cmds} : Issue("stop", <<>>, "returned", cs)

GetAngle(inp) ==
    /\ CanCall(inp)
    /\ calls' = calls + 1
    /\ call' = [op |-> "get_angle", args |-> <<>>, outcome |-> "returned",
                ret |-> Some(get_angle(left_motor, right_motor, angle_offset,
                                       axle_width)),
                read |-> <<left_motor.angle, right_motor.angle>>,
                timed_out |-> {}]
    /\ log' = <<>>
    /\ UNCHANGED <<reverse, wheel_diameter, axle_width, speed, angle_offset,
                   left_motor, right_motor, pc, ref>>

ResetAngle(inp) ==
    /\ CanCall(inp)
    /\ calls' = calls + 1
    /\ call' = [op |-> "reset_angle", args |-> <<>>, outcome |-> "returned",
                ret |-> None, read |-> <<>>, timed_out |-> {}]
    /\ log' = <<>>
    /\ angle_offset' = heading_offset(left_motor, right_motor)
    /\ ref' = <<left_motor.angle, right_motor.angle>>
    /\ UNCHANGED <<reverse, wheel_diameter, axle_width, speed,
                   left_motor, right_motor, pc>>

SetSpeed(inp) ==
    /\ CanCall(inp)
    /\ \E value \in inp.speeds :
        /\ calls' = calls + 1
        /\ call' = [op |-> "set_speed", args |-> <<value>>,
                    outcome |-> "returned", ret |-> None, read |-> <<>>, timed_out |-> {}]
        /\ log' = <<>>
        /\ speed' = value
        /\ UNCHANGED <<reverse, wheel_diameter, axle_width, angle_offset,
                       left_motor, right_motor, pc, ref>>

\* the timeout given to the call in progress (the last argument)
call_timeout == call.args[Len(call.args)]

\* left_motor.wait_for_movement(...) returns, the move done or the timeout
\* elapsed; the right wait begins
WaitLeft ==
    /\ pc = "wait_left"
    /\ \/ /\ ~Busy(left_motor)
          /\ call' = call
       \/ /\ Busy(left_motor)
          /\ call_timeout # None
          /\ call' = [call EXCEPT !.timed_out = @ \cup {"left"}]
    /\ log' = Append(log, <<"right", "wait_for_movement", wait_arg(call_timeout)>>)
    /\ pc' = "wait_right"
    /\ UNCHANGED <<reverse, wheel_diameter, axle_width, speed, angle_offset,
                   left_motor, right_motor, calls, ref>>

\* the call returns without waiting for the right motor
WaitRight_no_wait ==
    /\ pc = "wait_right"
    /\ call' = [call EXCEPT !.outcome = "returned"]
    /\ pc' = "idle"
    /\ UNCHANGED <<reverse, wheel_diameter, axle_width, speed, angle_offset,
                   left_motor, right_motor, log, calls, ref>>

\* right_motor.wait_for_movement(...) returns; the call returns
WaitRight ==
    /\ pc = "wait_right"
    /\ \/ /\ ~Busy(right_motor)
          /\ call' = [call EXCEPT !.outcome = "returned"]
       \/ /\ Busy(right_motor)
          /\ call_timeout # None
          /\ call' = [call EXCEPT !.outcome = "returned",
                                  !.timed_out = @ \cup {"right"}]
    /\ pc' = "idle"
    /\ UNCHANGED <<reverse, wheel_diameter, axle_width, speed, angle_offset,
                   left_motor, right_motor, log, calls, ref>>

\* the hardware: a motor in a bounded move reaches its target (it never does
\* at speed 0); a motor in velocity mode turns on, a second at a time
Spinning(m) == m.mode = "speed" /\ m.rate # 0

CanMove(inp, m) ==
    \/ Busy(m) /\ m.rate # 0
    \/ inp.spin /\ Spinning(m) /\ m.spun < MaxSpin

Moved(m) ==
    IF Busy(m)
    THEN [m EXCEPT !.angle = @ + m.remaining, !.remaining = 0, !.mode = "ready"]
    ELSE [m EXCEPT !.angle = @ + m.rate, !.spun = @ + 1]

LeftMotorMoves(inp) ==
    /\ CanMove(inp, left_motor)
    /\ left_motor' = Moved(left_motor)
    /\ UNCHANGED <<reverse, wheel_diameter, axle_width, speed, angle_offset,
                   right_motor, pc, call, log, calls, ref>>

RightMotorMoves(inp) ==
    /\ CanMove(inp, right_motor)
    /\ right_motor' = Moved(right_motor)
    /\ UNCHANGED <<reverse, wheel_diameter, axle_width, speed, angle_offset,
                   left_motor, pc, call, log, calls, ref>>

PilotNext(inp) ==
    \/ Forward(inp)
    \/ Backward(inp)
    \/ Travel(inp)
    \/ Rotate(inp)
    \/ Steer(inp)
    \/ Stop(inp)
    \/ GetAngle(inp)
    \/ ResetAngle(inp)
    \/ SetSpeed(inp)
    \/ WaitLeft
    \/ WaitRight
    \/ LeftMotorMoves(inp)
    \/ RightMotorMoves(inp)

-----------------------------------------------------------------------------
(* NotePlayer *)

Notes == {<<440, 1>>, <<523, 2>>}

NoUpdate == [op |-> "init", played |-> None, start |-> 0, duration |-> 0,
             playing |-> FALSE, t |-> 0]

\* NotePlayer.__init__
InitPlayer ==
    /\ repeat \in BOOLEAN
    /\ queue = <<>>
    /\ current_index = 0
    /\ is_playing = FALSE
    /\ note_start_time = 0
    /\ note_duration = 0
    /\ now = 1
    /\ tones = <<>>
    /\ last = NoUpdate

AddNote ==
    /\ Len(queue) < MaxNotes
    /\ \E note \in Notes : queue' = Append(queue, note)
    /\ last' = [NoUpdate EXCEPT !.op = "add_note"]
    /\ UNCHANGED <<repeat, current_index, is_playing, note_start_time,
                   note_duration, now, tones>>

Play ==
    /\ current_index' = 0
    /\ is_playing' = TRUE
    /\ note_start_time' = 0
    /\ tones' = <<>>
    /\ last' = [NoUpdate EXCEPT !.op = "play"]
    /\ UNCHANGED <<repeat, queue, note_duration, now>>

StopPlayer ==
    /\ is_playing' = FALSE
    /\ current_index' = 0
    /\ last' = [NoUpdate EXCEPT !.op = "stop"]
    /\ UNCHANGED <<repeat, queue, note_start_time, note_duration, now, tones>>

should_play_next_note(t, start, duration) == t - start >= duration

\* the end of update() with > for >=
advance_off_by_one(index, n, rep) ==
    IF index + 1 > n
    THEN IF rep THEN <<0, TRUE>> ELSE <<0, FALSE>>
    ELSE <<index + 1, TRUE>>

\* the end of update(), after a note was started: <<current_index, is_playing>>
advance(index, n, rep) ==
    IF index + 1 >= n
    THEN IF rep THEN <<0, TRUE>> ELSE <<0, FALSE>>
    ELSE <<index + 1, TRUE>>

Update ==
    LET before == [op |-> "update", played |-> None, start |-> note_start_time,
                   duration |-> note_duration, playing |-> is_playing, t |-> now]
    IN  IF ~is_playing \/ queue = <<>>
        THEN /\ last' = before
             /\ UNCHANGED <<repeat, queue, current_index, is_playing,
                            note_start_time, note_duration, now, tones>>
        ELSE IF \/ note_start_time = 0
                \/ should_play_next_note(now, note_start_time, note_duration)
        THEN /\ tones' = Append(tones, current_index)
             /\ note_start_time' = now
             /\ note_duration' = queue[current_index + 1][2]
             /\ current_index' = advance(current_index, Len(queue), repeat)[1]
             /\ is_playing' = advance(current_index, Len(queue), repeat)[2]
             /\ last' = [before EXCEPT !.played = Some(current_index)]
             /\ UNCHANGED <<repeat, queue, now>>
        ELSE /\ last' = before
             /\ UNCHANGED <<repeat, queue, current_index, is_playing,
                            note_start_time, note_duration, now, tones>>

\* time passes
Tick ==
    /\ now < MaxTime
    /\ now' = now + 1
    /\ UNCHANGED <<repeat, queue, current_index, is_playing, note_start_time,
                   note_duration, tones, last>>

PlayerNext ==
    \/ AddNote
    \/ Play
    \/ StopPlayer
    \/ Update
    \/ Tick

-----------------------------------------------------------------------------
(* Specifications *)

\* the Pilot, short sessions over every kind of argument
Init == InitPilot(Wide) /\ InitPlayer /\ repeat = TRUE

Next == PilotNext(Wide) /\ UNCHANGED playerVars

Spec == Init /\ [][Next]_vars

\* the Pilot, longer sessions, with the motors turning in velocity mode
InitSession == InitPilot(Narrow) /\ InitPlayer /\ repeat = TRUE

NextSession == PilotNext(Narrow) /\ UNCHANGED playerVars

SpecSession == InitSession /\ [][NextSession]_vars

\* the NotePlayer, beside a Pilot that is left alone
InitNotes == InitPilot(Narrow) /\ left_motor = Motor(0) /\ ~reverse /\ InitPlayer

NextNotes == PlayerNext /\ UNCHANGED pilotVars

SpecNotes == InitNotes /\ [][NextNotes]_vars

-----------------------------------------------------------------------------
(* What the claims are stated over *)

\* the last call is travel, rotate, or steer with an angle
IsBounded ==
    \/ call.op \in {"travel", "rotate"}
    \/ call.op = "steer" /\ call.args[2] # None

\* wait_until_done of the last call (the argument before the timeout)
call_wait == call.args[Len(call.args) - 1]

IsWait(c) == c[2] = "wait_for_movement"

\* the motor commands of the last call, its waits left out
Issued == SelectSeq(log, LAMBDA c : ~IsWait(c))

\* the commands the last call would have issued under the reverse flag rev
Commands(rev) ==
    CASE call.op = "forward" -> forward_cmds(rev, speed)
      [] call.op = "backward" -> backward_cmds(rev, speed)
      [] call.op = "travel" ->
            travel_cmds(rev, speed, wheel_diameter, call.args[1])
      [] call.op = "rotate" ->
            rotate_cmds(rev, speed, wheel_diameter, axle_width, call.args[1])
      [] call.op = "steer" ->
            steer_cmds(rev, speed, wheel_diameter, axle_width,
                       call.args[1], call.args[2])[2]

\* the turn rate of the last steer, brought into [-200, 200]
Clamped ==
    IF call.args[1] > 200 THEN 200
    ELSE IF call.args[1] < -200 THEN -200 ELSE call.args[1]

\* 100 times the wheel-speed ratio of that turn rate
Ratio100 ==
    IF Abs(Clamped) <= 100 THEN 100 - Abs(Clamped) ELSE -(Abs(Clamped) - 100)

\* base speed with the sign of the direction of travel
Signed == IF reverse THEN -speed ELSE speed

\* the velocities commanded to the inner and to the outer wheel
Inner == IF Clamped > 0 THEN log[1][3] ELSE log[2][3]
Outer == IF Clamped > 0 THEN log[2][3] ELSE log[1][3]

IsVelocityPair ==
    /\ Len(log) = 2
    /\ log[1][1] = "left" /\ log[1][2] = "run_at_speed"
    /\ log[2][1] = "right" /\ log[2][2] = "run_at_speed"

IsPositionPair ==
    /\ Len(log) >= 2
    /\ log[1][1] = "left" /\ log[1][2] = "rotate_by_angle"
    /\ log[2][1] = "right" /\ log[2][2] = "rotate_by_angle"

-----------------------------------------------------------------------------
(* C1 *)

C1_Rejected ==
    (call.op = "steer" /\ call.args[1] = 0 /\ call.args[2] # None)
        => /\ call.outcome = "ValueError"
           /\ log = <<>>
           /\ pc = "idle"

C1_Untouched ==
    (/\ calls' = calls + 1
     /\ call'.op = "steer" /\ call'.args[1] = 0 /\ call'.args[2] # None)
        => UNCHANGED <<reverse, wheel_diameter, axle_width, speed,
                       angle_offset, left_motor, right_motor>>

\* C1: steer(0, angle) with an angle always fails with ValueError; the call
\* issues no command to either motor and changes neither a Pilot field nor a
\* motor.
C1_SteerStraightWithAngleFails == []C1_Rejected /\ [][C1_Untouched]_vars

C1_Witness ==
    /\ call.op = "steer" /\ call.args[1] = 0 /\ call.args[2] # None
    /\ call.outcome = "ValueError"
    /\ reverse /\ speed = 3
    /\ left_motor = Motor(0) /\ right_motor = Motor(0)

-----------------------------------------------------------------------------
(* C2 *)

\* C2: steer(turn_rate, angle) with a nonzero turn rate and an angle never
\* divides by a zero omega: both bounded position commands are issued.
C2_OmegaNeverZero ==
    (call.op = "steer" /\ call.args[1] # 0 /\ call.args[2] # None)
        => /\ call.outcome # "ZeroDivisionError"
           /\ IsPositionPair

-----------------------------------------------------------------------------
(* C3 *)

\* C3: get_angle() right after reset_angle() or construction, the motors
\* reporting the angles they reported then, returns exactly 0.
C3_ZeroAfterReset ==
    (call.op = "get_angle" /\ call.read = ref) => call.ret = Some(RInt[0])

C3_Witness ==
    /\ call.op = "get_angle" /\ call.read = ref
    /\ call.ret = Some(RInt[0])
    /\ ref[2] # 0
    /\ ref[1] - ref[2] \notin {0, 7}

-----------------------------------------------------------------------------
(* C4 *)

\* C4: when, since the baseline was taken, the left motor has turned by +d
\* and the right by -d, d the wheel angle rotate(theta) commands, get_angle()
\* returns theta up to the rounding of d (half a wheel degree, which is
\* wheel_diameter / (2 * axle_width) degrees of heading).
C4_GetAngleInvertsRotate ==
    \A theta \in Narrow.angles :
        LET d == rotate_degrees(wheel_diameter, axle_width, theta)
        IN  (/\ call.op = "get_angle"
             /\ call.read = <<ref[1] + d, ref[2] - d>>)
                => RLeq[RAbs[RSub[call.ret[1], RInt[theta]]],
                        Rat[wheel_diameter, 2 * axle_width]]

-----------------------------------------------------------------------------
(* C5 *)

C5_Shape ==
    /\ call.outcome = "returned"
    /\ IsVelocityPair
    /\ Outer = Signed
    /\ Clamped = 0 => log = forward_cmds(reverse, speed)
    /\ Abs(Clamped) = 100 => Inner = 0
    /\ Abs(Clamped) = 200 => log[1][3] = -log[2][3]

\* C5 as stated: steer(turn_rate) without an angle commands the outer wheel
\* at base speed and the inner wheel at exactly base speed * ratio.
C5_InnerExact ==
    (call.op = "steer" /\ call.args[2] = None)
        => /\ C5_Shape
           /\ 100 * Inner = Signed * Ratio100

\* C5 amended: the inner wheel is commanded at base speed * ratio rounded to
\* the nearest integer (ties to the even one), the outer wheel at base speed;
\* left is the inner wheel for a positive turn rate; both negated under
\* reverse; steer(0) issues forward()'s commands, steer(100) an inner wheel
\* of 0, steer(200) opposite velocities.
C5_InnerRounded ==
    (call.op = "steer" /\ call.args[2] = None)
        => /\ C5_Shape
           /\ Inner = round[Rat[Signed * Ratio100, 100]]

C5_Witness ==
    /\ call.op = "steer" /\ call.args[2] = None
    /\ call.args[1] = -250
    /\ reverse
    /\ speed = 3
    /\ log[1][3] = -3 /\ log[2][3] = 3

-----------------------------------------------------------------------------
(* C6 *)

\* C6: the velocity (velocity mode) or the relative angle (position mode)
\* each of forward, backward, travel, rotate and steer commands to each motor
\* is the negation of the one it commands under the opposite reverse flag.
C6_ReverseNegates ==
    (/\ call.op \in {"forward", "backward", "travel", "rotate", "steer"}
     /\ call.outcome \in {"running", "returned"})
        => /\ Len(Issued) = Len(Commands(~reverse))
           /\ \A i \in DOMAIN Issued :
                 /\ Issued[i][1] = Commands(~reverse)[i][1]
                 /\ Issued[i][2] = Commands(~reverse)[i][2]
                 /\ Issued[i][3] = -Commands(~reverse)[i][3]

-----------------------------------------------------------------------------
(* C7 *)

-----------------------------------------------------------------------------
(* C8 *)

C8_NoStopping ==
    IsBounded
        => /\ \A i \in DOMAIN log :
                 log[i][2] \in {"rotate_by_angle", "wait_for_movement"}
           /\ \A i \in DOMAIN log :
                 IsWait(log[i])
                    => /\ log[i][3] = IF call_timeout = None THEN None
                                      ELSE Some(call_timeout[1] * 1000)
                       /\ \/ i = 3 /\ log[i][1] = "left"
                          \/ i = 4 /\ log[i][1] = "right"
           /\ call.timed_out # {} => call_timeout # None
           /\ "left" \in call.timed_out => Len(log) = 4

C8_WaitLeavesMotors ==
    (pc \in {"wait_left", "wait_right"} /\ pc' # pc)
        => /\ left_motor' = left_motor
           /\ right_motor' = right_motor

\* C8: travel, rotate and steer with an angle issue no brake nor any other
\* stopping command; the left wait, then the right wait, each get the whole
\* timeout (timeout * 1000); a wait that ends, by timeout too, leaves both
\* motors as they are, the bounded move in progress and its target unchanged.
C8_TimeoutDoesNotCancel == []C8_NoStopping /\ [][C8_WaitLeavesMotors]_vars

C8_Witness ==
    /\ IsBounded
    /\ pc = "idle" /\ call.outcome = "returned"
    /\ call.timed_out = {"left", "right"}
    /\ Busy(left_motor) /\ Busy(right_motor)
    /\ left_motor.remaining = log[1][3]

-----------------------------------------------------------------------------
(* C9 *)

\* C9: travel, rotate and steer with an angle issue the position command to
\* the left and to the right motor before any wait; with wait_until_done and
\* no timeout the call returns only once neither motor has an unfinished
\* bounded move; without wait_until_done it returns right after the two
\* commands, with no wait.
C9_WaitUntilDone ==
    (IsBounded /\ call.outcome \in {"running", "returned"})
        => /\ IsPositionPair
           /\ \A i \in DOMAIN log : IsWait(log[i]) => i > 2
           /\ ~call_wait
                => pc = "idle" /\ call.outcome = "returned" /\ Len(log) = 2
           /\ (call_wait /\ call_timeout = None /\ call.outcome = "returned")
                => /\ ~Busy(left_motor)
                   /\ ~Busy(right_motor)
                   /\ Len(log) = 4

C9_Witness ==
    /\ IsBounded
    /\ call_wait /\ call_timeout = None
    /\ pc = "idle" /\ call.outcome = "returned"
    /\ log[1][3] # 0 /\ log[2][3] # 0
    /\ left_motor.mode = "ready" /\ right_motor.mode = "ready"

-----------------------------------------------------------------------------
(* C10 *)

C10_IndexInRange == current_index = 0 \/ current_index < Len(queue)

C10_FirstAtOnce ==
    (last.op = "update" /\ last.playing /\ queue # <<>> /\ last.start = 0)
        => last.played = Some(0)

C10_WhenElapsed ==
    (last.op = "update" /\ last.playing /\ queue # <<>> /\ last.start # 0)
        => (last.played # None <=> last.t - last.start >= last.duration)

C10_InOrder ==
    \A i \in DOMAIN tones :
        /\ i = 1 => tones[i] = 0
        /\ i > 1 => tones[i] = tones[i - 1] + 1 \/ (repeat /\ tones[i] = 0)
        /\ tones[i] < Len(queue)

C10_AfterNote ==
    (last.op = "update" /\ last.played # None)
        => IF last.played[1] = Len(queue) - 1
           THEN current_index = 0 /\ is_playing = repeat
           ELSE current_index = last.played[1] + 1 /\ is_playing

C10_SilentWhenStopped ==
    (last.op = "update" /\ ~last.playing) => last.played = None

\* C10: after play() the first update() plays queue[0] at once, each later
\* update() the next note once the previous note's duration has elapsed, in
\* queue order; without repeat no note is started twice and, the last note
\* started, is_playing is False and current_index 0, and update() plays
\* nothing until play(); with repeat the index wraps to 0; current_index is
\* always 0 or less than len(queue).
C10_Sequencing ==
    /\ C10_IndexInRange
    /\ C10_FirstAtOnce
    /\ C10_WhenElapsed
    /\ C10_InOrder
    /\ C10_AfterNote
    /\ C10_SilentWhenStopped

C10_Witness ==
    /\ ~repeat
    /\ Len(queue) = 3
    /\ tones = <<0, 1, 2>>
    /\ ~is_playing /\ current_index = 0
    /\ last.op = "update" /\ last.played = None /\ ~last.playing

====
